---------------------------- MODULE Spec2Model ----------------------------
(***************************************************************************)
(* Model of the exoplanet classifier: the serving module backend/app.py    *)
(* (artifact loading, payload validation, engine selection, inference,    *)
(* batch decoding and aggregation, the /exoplanet handler) and the        *)
(* offline trainer api/train_lightweight_model.py (_parse_dataset).       *)
(*                                                                         *)
(* Python values are tagged records [t |-> type, v |-> value].  Python     *)
(* floats are modelled as a binary floating-point format with              *)
(* round-to-nearest-even, gradual underflow and overflow to infinity, at   *)
(* a reduced width: MantBits bits of precision instead of 53, and a unit   *)
(* in the last place of 2^-FracBits for the smallest numbers.  A finite    *)
(* float x is the integer x * 2^FracBits.                                  *)
(***************************************************************************)
EXTENDS Integers, Sequences, FiniteSets, TLC

VARIABLES
    phase,          \* module initialisation of app.py: "importing", "serving", "import_failed"
    paramsFile,     \* lightweight_model.json: "missing" or its decoded JSON object
    sampleFile,     \* test_data.json: the decoded JSON object
    joblib,         \* the optional import: TRUE when the joblib library is importable
    joblibFile,     \* model.joblib: "absent", "corrupt" or the pickled model
    FEATURE_KEYS,   \* app.py globals set at import
    WEIGHTS,
    BIAS,
    MEANS,
    STDS,
    MEDIANS,
    JOBLIB_MODEL,   \* the cache _JOBLIB_MODEL
    call,           \* the operation under way: its name and arguments
    ret,            \* its outcome: a returned value or a raised exception
    dataset         \* trainer: the rows of the KOI catalogue

vars == <<phase, paramsFile, sampleFile, joblib, joblibFile, FEATURE_KEYS, WEIGHTS,
          BIAS, MEANS, STDS, MEDIANS, JOBLIB_MODEL, call, ret, dataset>>

-----------------------------------------------------------------------------
(* Bounds of the model *)

\* number of schema keys (33 in the trainer's FEATURE_KEYS)
NumKeys == 3
\* longest batch handed to classify_batch
MaxBatch == 3
\* precision of the float format in bits (53 in CPython)
MantBits == 3
\* the smallest positive float is 2^-FracBits
FracBits == 4
\* largest exponent shift: the largest finite float is (2^MantBits - 1) * 2^MaxExp units
MaxExp == 6

-----------------------------------------------------------------------------
(* Outcomes of a call: a value returned or an exception raised *)

NoValue == [t |-> "NoneType", v |-> "None"]

Return(value) == [exc |-> "none", msg |-> <<>>, value |-> value]

Raise(exception, message) == [exc |-> exception, msg |-> message, value |-> NoValue]

Returned(outcome) == outcome.exc = "none"

\* Then(value): names a value that the code holds in a local variable
Bind(value, Then(_)) == Then(value)

-----------------------------------------------------------------------------
(* Python floats *)

One == 2 ^ FracBits

FMax == (2 ^ MantBits - 1) * 2 ^ MaxExp

PosInf == 4 * FMax

NegInf == 0 - PosInf

NaN == PosInf + 1

isfinite(x) == x \notin {PosInf, NegInf, NaN}

Abs(n) == IF n < 0 THEN 0 - n ELSE n

\* The float nearest to the rational n/d (d > 0): at most MantBits significant
\* bits, ties to the even mantissa, infinity beyond the largest finite float.
RoundQ(n, d) ==
    LET a == Abs(n)
        s == IF n < 0 THEN 0 - 1 ELSE 1
    IN  IF a >= d * 2 ^ (MantBits + MaxExp) THEN s * PosInf
        ELSE LET k == CHOOSE j \in 0..MaxExp :
                          /\ a < d * 2 ^ (MantBits + j)
                          /\ \A i \in 0..(j - 1) : a >= d * 2 ^ (MantBits + i)
                 den == d * 2 ^ k
                 m == a \div den
                 r == a % den
                 up == (2 * r > den) \/ (2 * r = den /\ m % 2 = 1)
                 x == (IF up THEN m + 1 ELSE m) * 2 ^ k
             IN  IF x > FMax THEN s * PosInf ELSE s * x

FNeg(x) == IF x = NaN THEN NaN ELSE 0 - x

FAdd(x, y) ==
    IF x = NaN \/ y = NaN THEN NaN
    ELSE IF isfinite(x) /\ isfinite(y) THEN RoundQ(x + y, 1)
    ELSE IF isfinite(x) THEN y
    ELSE IF isfinite(y) THEN x
    ELSE IF x = y THEN x ELSE NaN

FSub(x, y) == FAdd(x, FNeg(y))

Sign(x) == IF x < 0 THEN 0 - 1 ELSE 1

FMul(x, y) ==
    IF x = NaN \/ y = NaN THEN NaN
    ELSE IF isfinite(x) /\ isfinite(y) THEN RoundQ(x * y, One)
    ELSE IF x = 0 \/ y = 0 THEN NaN
    ELSE Sign(x) * Sign(y) * PosInf

\* x / y for y # 0 (Python raises ZeroDivisionError for y = 0: see the callers)
FDiv(x, y) ==
    IF x = NaN \/ y = NaN THEN NaN
    ELSE IF isfinite(x) /\ isfinite(y) THEN RoundQ(Sign(y) * x * One, Abs(y))
    ELSE IF isfinite(x) THEN 0
    ELSE IF isfinite(y) THEN Sign(x) * Sign(y) * PosInf
    ELSE NaN

\* the finite floats >= 0
FiniteFloats == {m * 2 ^ k : m \in 0..(2 ^ MantBits - 1), k \in 0..MaxExp}

\* math.sqrt of a float x >= 0: the float nearest to the real square root
FSqrt(x) ==
    IF x = NaN \/ x = PosInf THEN x
    ELSE LET n == x * One
             lo == CHOOSE f \in FiniteFloats :
                       f * f <= n /\ \A g \in FiniteFloats : g * g <= n => g <= f
             above == {f \in FiniteFloats : f > lo}
         IN  IF lo * lo = n \/ above = {} THEN lo
             ELSE LET hi == CHOOSE f \in above : \A g \in above : f <= g
                  IN  IF 4 * n > (lo + hi) * (lo + hi) THEN hi ELSE lo

-----------------------------------------------------------------------------
(* Python values and the builtin float() *)

PyInt(n) == [t |-> "int", v |-> n]

PyFloat(x) == [t |-> "float", v |-> x]

PyStr(s) == [t |-> "str", v |-> s]

PyBool(b) == [t |-> "bool", v |-> b]

PyList(items) == [t |-> "list", v |-> items]

PyDict(mapping) == [t |-> "dict", v |-> mapping]

\* float(s) of the strings the model uses (surrounding whitespace is ignored,
\* "nan" and "inf" are accepted, a decimal too large for a float gives inf)
float_of_str(s) ==
    CASE s = "1" -> Return(One)
      [] s = " 2 " -> Return(2 * One)
      [] s = "1.5" -> Return(One + One \div 2)
      [] s = "1.25" -> Return(One + One \div 4)
      [] s = "nan" -> Return(NaN)
      [] s = "NaN" -> Return(NaN)
      [] s = "inf" -> Return(PosInf)
      [] s = "1e999" -> Return(PosInf)
      [] OTHER -> Raise("ValueError", <<"could not convert string to float">>)

\* float(x): ValueError for a string that is no number, TypeError for None
\* and containers, OverflowError for an int beyond the largest float
py_float(x) ==
    CASE x.t = "float" -> Return(x.v)
      [] x.t = "int" ->
            Bind(RoundQ(x.v * One, 1), LAMBDA f :
                IF isfinite(f) THEN Return(f)
                ELSE Raise("OverflowError", <<"int too large to convert to float">>))
      [] x.t = "bool" -> Return(IF x.v THEN One ELSE 0)
      [] x.t = "str" -> float_of_str(x.v)
      [] OTHER -> Raise("TypeError", <<"float() argument must be a string or a real number">>)

-----------------------------------------------------------------------------
(* Strings that the code inspects are sequences of characters *)

LowerChar(c) ==
    CASE c = "J" -> "j" [] c = "O" -> "o" [] c = "B" -> "b" [] c = "L" -> "l"
      [] c = "I" -> "i" [] c = "C" -> "c" [] c = "S" -> "s" [] c = "V" -> "v"
      [] c = "N" -> "n" [] c = "X" -> "x"
      [] OTHER -> c

\* str.lower()
lower(s) == [i \in 1..Len(s) |-> LowerChar(s[i])]

IsSpace(c) == c \in {" ", "\t", "\n"}

\* str.strip()
strip(s) ==
    LET keep == {i \in 1..Len(s) : ~IsSpace(s[i])}
    IN  IF keep = {} THEN <<>>
        ELSE LET first == CHOOSE i \in keep : \A j \in keep : i <= j
                 last == CHOOSE i \in keep : \A j \in keep : j <= i
             IN  SubSeq(s, first, last)

\* str.endswith(suffix)
endswith(s, suffix) ==
    /\ Len(s) >= Len(suffix)
    /\ SubSeq(s, Len(s) - Len(suffix) + 1, Len(s)) = suffix

\* sub in s
contains(s, sub) ==
    \E i \in 1..(Len(s) - Len(sub) + 1) : SubSeq(s, i, i + Len(sub) - 1) = sub

-----------------------------------------------------------------------------
(* The feature schema and the model artifact *)

\* FEATURE_KEYS of the trainer, the feature_keys of every artifact it writes
KeyNames ==
    <<"koi_period", "koi_period_err1", "koi_period_err2", "koi_time0bk",
      "koi_time0bk_err1", "koi_time0bk_err2", "koi_impact", "koi_impact_err1",
      "koi_impact_err2", "koi_duration", "koi_duration_err1", "koi_duration_err2",
      "koi_depth", "koi_depth_err1", "koi_depth_err2", "koi_prad", "koi_prad_err1",
      "koi_prad_err2", "koi_teq", "koi_insol", "koi_insol_err1", "koi_insol_err2",
      "koi_model_snr", "koi_tce_plnt_num", "koi_steff", "koi_steff_err1",
      "koi_steff_err2", "koi_slogg", "koi_slogg_err1", "koi_slogg_err2",
      "koi_srad_err1", "koi_srad_err2", "ra">>

\* the first NumKeys of them
TRAIN_FEATURE_KEYS == SubSeq(KeyNames, 1, NumKeys)

Range(s) == {s[i] : i \in 1..Len(s)}

ENGINE_LIGHTWEIGHT == <<"l", "i", "g", "h", "t", "w", "e", "i", "g", "h", "t">>

ENGINE_JOBLIB == <<"j", "o", "b", "l", "i", "b">>

SUPPORTED_ENGINES == {ENGINE_LIGHTWEIGHT, ENGINE_JOBLIB}

NoModel == [loaded |-> FALSE, predict |-> 0, has_proba |-> FALSE, proba |-> <<>>]

-----------------------------------------------------------------------------
(* backend/app.py *)

\* {key: value for key, value in sample.items() if key in FEATURE_KEYS}
load_sample ==
    [key \in {k \in DOMAIN sampleFile : k \in Range(FEATURE_KEYS)} |-> sampleFile[key]]

\* _JOBLIB_MODEL after a call of get_joblib_model()
joblib_cache_after ==
    IF ~joblib THEN JOBLIB_MODEL
    ELSE IF ~JOBLIB_MODEL.loaded /\ joblibFile.state # "absent"
         THEN (IF joblibFile.state = "ok" THEN joblibFile.model ELSE NoModel)
         ELSE JOBLIB_MODEL

\* the value get_joblib_model() returns (NoModel stands for None)
get_joblib_model == IF ~joblib THEN NoModel ELSE joblib_cache_after

\* a variant of missing_features that reports only the first absent key
missing_features_first_only(payload) ==
    LET all == SelectSeq(FEATURE_KEYS, LAMBDA key : key \notin DOMAIN payload)
    IN  IF all = <<>> THEN all ELSE <<all[1]>>

\* missing = [key for key in FEATURE_KEYS if key not in payload]
missing_features(payload) ==
    SelectSeq(FEATURE_KEYS, LAMBDA key : key \notin DOMAIN payload)

RECURSIVE convert_features(_, _, _)
\* the loop of prepare_payload over FEATURE_KEYS from position i on
convert_features(payload, i, prepared_features) ==
    IF i > Len(FEATURE_KEYS) THEN Return(prepared_features)
    ELSE Bind(py_float(payload[FEATURE_KEYS[i]]), LAMBDA value :
             IF value.exc \in {"ValueError", "TypeError"}
             THEN Raise("ValueError", <<"All feature values must be numeric.">>)
             ELSE IF ~Returned(value) THEN value
             ELSE IF ~isfinite(value.value)
             THEN Raise("ValueError", <<"Feature values must be finite numbers.">>)
             ELSE convert_features(payload, i + 1,
                                   (FEATURE_KEYS[i] :> value.value) @@ prepared_features))

\* a variant of prepare_payload that keeps the keys outside the schema
prepare_payload_keeps_extra_keys(payload) ==
    Bind(missing_features(payload), LAMBDA missing :
        IF missing # <<>> THEN Raise("ValueError", <<"Missing features: ", missing>>)
        ELSE convert_features(payload, 1,
                              [key \in DOMAIN payload \ Range(FEATURE_KEYS) |-> 0]))

prepare_payload(payload) ==
    Bind(missing_features(payload), LAMBDA missing :
        IF missing # <<>> THEN Raise("ValueError", <<"Missing features: ", missing>>)
        ELSE convert_features(payload, 1, <<>>))

\* sigmoid(value) >= 0.5.  math.exp is not evaluated: the probability is kept
\* as the symbolic value sigmoid(total).  exp_term <= 1 for value >= 0 and
\* exp_term < 1 for every negative float of this format, NaN compares false.
sigmoid_at_least_half(value) == value # NaN /\ value >= 0

Min(S) == CHOOSE x \in S : \A y \in S : x <= y

RECURSIVE predict_total(_, _, _)
\* the loop of predict_probability: zip stops at the shortest of the five lists
predict_total(features, i, total) ==
    IF i > Min({Len(WEIGHTS), Len(FEATURE_KEYS), Len(MEANS), Len(STDS), Len(MEDIANS)})
    THEN Return(total)
    ELSE LET key == FEATURE_KEYS[i]
             raw == IF key \in DOMAIN features THEN features[key] ELSE MEDIANS[i]
         IN  IF STDS[i] = 0 THEN Raise("ZeroDivisionError", <<"float division by zero">>)
             ELSE predict_total(features, i + 1,
                     FAdd(total, FMul(WEIGHTS[i], FDiv(FSub(raw, MEANS[i]), STDS[i]))))

predict_probability(features) == predict_total(features, 1, BIAS)

build_lightweight_prediction(prepared_features) ==
    Bind(predict_probability(prepared_features), LAMBDA probability :
        IF ~Returned(probability) THEN probability
        ELSE Return([prediction |-> IF sigmoid_at_least_half(probability.value) THEN 1 ELSE 0,
                     probability |-> <<"sigmoid", probability.value>>,
                     features |-> prepared_features,
                     engine |-> ENGINE_LIGHTWEIGHT]))

\* the pickled model is a fixed classifier: predict gives model.predict,
\* predict_proba (when the model has it) gives model.proba
build_joblib_prediction(prepared_features, model) ==
    LET probability_value ==
            IF model.has_proba
            THEN (IF Len(model.proba) > 1 THEN model.proba[2] ELSE model.proba[1])
            ELSE NaN
        result == [prediction |-> model.predict,
                   features |-> prepared_features,
                   engine |-> ENGINE_JOBLIB]
    IN  IF model.has_proba /\ isfinite(probability_value)
        THEN Return([prediction |-> model.predict,
                     probability |-> <<"proba", probability_value>>,
                     features |-> prepared_features,
                     engine |-> ENGINE_JOBLIB])
        ELSE Return(result)

run_inference(prepared_features, engine) ==
    IF engine = ENGINE_JOBLIB
    THEN Bind(get_joblib_model, LAMBDA model :
             IF ~model.loaded
             THEN Raise("ValueError", <<"Joblib model is not available on the server.">>)
             ELSE build_joblib_prediction(prepared_features, model))
    ELSE build_lightweight_prediction(prepared_features)

\* {"index": index, **prediction}
with_index(index, prediction) == ("index" :> index) @@ prediction

RECURSIVE classify_from(_, _, _, _)
\* the loop of classify_batch from the record at position index on (0-based)
classify_from(payloads, engine, index, results) ==
    IF index >= Len(payloads) THEN Return(results)
    ELSE IF payloads[index + 1].t # "dict"
    THEN classify_from(payloads, engine, index + 1,
            Append(results, [index |-> index,
                             error |-> <<"Each record must be a JSON object.">>]))
    ELSE Bind(prepare_payload(payloads[index + 1].v), LAMBDA prepared :
             IF prepared.exc = "ValueError"
             THEN classify_from(payloads, engine, index + 1,
                     Append(results, [index |-> index, error |-> prepared.msg]))
             ELSE IF ~Returned(prepared) THEN prepared
             ELSE Bind(run_inference(prepared.value, engine), LAMBDA prediction :
                      IF prediction.exc = "ValueError"
                      THEN classify_from(payloads, engine, index + 1,
                              Append(results, [index |-> index, error |-> prediction.msg]))
                      ELSE IF ~Returned(prediction) THEN prediction
                      ELSE classify_from(payloads, engine, index + 1,
                              Append(results, with_index(index, prediction.value)))))

classify_batch(payloads, engine) == classify_from(payloads, engine, 0, <<>>)

\* whether classify_batch(payloads, engine) reaches run_inference with the
\* joblib engine, and so calls get_joblib_model()
RECURSIVE batch_loads_joblib(_, _, _)
batch_loads_joblib(payloads, engine, index) ==
    /\ index < Len(payloads)
    /\ IF payloads[index + 1].t # "dict" THEN batch_loads_joblib(payloads, engine, index + 1)
       ELSE Bind(prepare_payload(payloads[index + 1].v), LAMBDA prepared :
                IF prepared.exc = "ValueError"
                THEN batch_loads_joblib(payloads, engine, index + 1)
                ELSE Returned(prepared) /\ engine = ENGINE_JOBLIB)

\* the uploaded bytes are [kind, bom, doc, lines]: kind "json" is the compact
\* one-line JSON text of doc, kind "lines" is the text whose lines split at
\* commas into the cells of lines (unquoted cells, an empty line is <<>>),
\* kind "not_utf8" is bytes that are no UTF-8; bom tells a leading byte-order
\* mark.  No bytes at all is the text of no lines without a mark.
is_empty_bytes(raw_bytes) ==
    raw_bytes.kind = "lines" /\ raw_bytes.lines = <<>> /\ ~raw_bytes.bom

is_json(filename, mimetype) ==
    endswith(filename, <<".", "j", "s", "o", "n">>) \/ contains(mimetype, <<"j", "s", "o", "n">>)

is_csv(filename, mimetype) ==
    endswith(filename, <<".", "c", "s", "v">>) \/ contains(mimetype, <<"c", "s", "v">>)

\* raw_bytes.decode("utf-8-sig"): the text without the byte-order mark
decode_utf8_sig(raw_bytes) ==
    IF raw_bytes.kind = "not_utf8" THEN Raise("UnicodeDecodeError", <<"invalid start byte">>)
    ELSE Return([kind |-> raw_bytes.kind, doc |-> raw_bytes.doc, lines |-> raw_bytes.lines])

is_blank(cell) == cell \in {"", " "}

is_whitespace_line(line) == Len(line) = 0 \/ (Len(line) = 1 /\ is_blank(line[1]))

\* json.loads of a text: the document of a JSON text; a text of lines of cells
\* is JSON only when it is the number 1 alone between blank lines.  Otherwise
\* the parser stops at the first character that is no white space: a comma or
\* a letter (no value starts there) or what follows the number (extra data).
json_loads(text) ==
    IF text.kind = "json" THEN Return(text.doc)
    ELSE LET solid == {i \in 1..Len(text.lines) : ~is_whitespace_line(text.lines[i])}
         IN  IF solid = {} THEN Raise("JSONDecodeError", <<"Expecting value">>)
             ELSE LET first == Min(solid)
                      line == text.lines[first]
                  IN  IF line[1] # "1" THEN Raise("JSONDecodeError", <<"Expecting value">>)
                      ELSE IF Len(line) = 1 /\ solid = {first} THEN Return(PyInt(1))
                      ELSE Raise("JSONDecodeError", <<"Extra data">>)

\* a variant of json_batch that drops the elements that are no objects
json_batch_objects_only(data) ==
    IF data.t = "dict" THEN Return(<<data>>)
    ELSE IF data.t = "list" THEN Return(SelectSeq(data.v, LAMBDA item : item.t = "dict"))
    ELSE Raise("ValueError", <<"JSON file must contain an object or a list of objects.">>)

\* lines 207-211: the batch of a decoded document
json_batch(data) ==
    IF data.t = "dict" THEN Return(<<data>>)
    ELSE IF data.t = "list" THEN Return(data.v)
    ELSE Raise("ValueError", <<"JSON file must contain an object or a list of objects.">>)

\* lines 197-211
decode_json(raw_bytes) ==
    Bind(decode_utf8_sig(raw_bytes), LAMBDA decoded :
        IF ~Returned(decoded) THEN Raise("ValueError", <<"JSON file must be UTF-8 encoded.">>)
        ELSE Bind(json_loads(decoded.value), LAMBDA data :
                 IF data.exc = "JSONDecodeError"
                 THEN Raise("ValueError", <<"Could not parse JSON file: ", data.msg[1]>>)
                 ELSE json_batch(data.value)))

\* the rows csv.reader yields for a text: its lines split into cells; a
\* one-line JSON text is one row
csv_reader(text) == IF text.kind = "json" THEN << <<"json">> >> ELSE text.lines

RestKey == "<None>"

LastIndex(seq, x) == CHOOSE i \in 1..Len(seq) : seq[i] = x /\ \A j \in (i + 1)..Len(seq) : seq[j] # x

\* the dict csv.DictReader makes of a row: dict(zip(fieldnames, row)), the
\* cells beyond the header as a list under the key None, None for the
\* header names beyond the row
dict_reader_row(fieldnames, row) ==
    LET named == [key \in Range(fieldnames) |->
                     IF LastIndex(fieldnames, key) <= Len(row)
                     THEN PyStr(row[LastIndex(fieldnames, key)])
                     ELSE NoValue]
    IN  IF Len(fieldnames) < Len(row)
        THEN named @@ (RestKey :> PyList(SubSeq(row, Len(fieldnames) + 1, Len(row))))
        ELSE named

\* any((value or "").strip() for value in row.values()): the values in the
\* order of the header, the list under None last; a list has no strip()
any_value_not_blank(fieldnames, row) ==
    Bind(dict_reader_row(fieldnames, row), LAMBDA d :
        IF \E key \in Range(fieldnames) : d[key].t = "str" /\ ~is_blank(d[key].v)
        THEN Return(TRUE)
        ELSE IF RestKey \in DOMAIN d
        THEN Raise("AttributeError", <<"'list' object has no attribute 'strip'">>)
        ELSE Return(FALSE))

RECURSIVE csv_rows(_, _, _, _)
\* line 223: the rows of the reader from line i on that pass the filter
csv_rows(fieldnames, lines, i, rows) ==
    IF i > Len(lines) THEN Return(rows)
    ELSE IF lines[i] = <<>> THEN csv_rows(fieldnames, lines, i + 1, rows)
    ELSE Bind(any_value_not_blank(fieldnames, lines[i]), LAMBDA keep :
             IF ~Returned(keep) THEN keep
             ELSE IF keep.value
             THEN csv_rows(fieldnames, lines, i + 1,
                           Append(rows, PyDict(dict_reader_row(fieldnames, lines[i]))))
             ELSE csv_rows(fieldnames, lines, i + 1, rows))

\* lines 214-226
decode_csv(raw_bytes) ==
    Bind(decode_utf8_sig(raw_bytes), LAMBDA decoded :
        IF ~Returned(decoded) THEN Raise("ValueError", <<"CSV file must be UTF-8 encoded.">>)
        ELSE Bind(csv_reader(decoded.value), LAMBDA lines :
                 IF lines = <<>>
                 THEN Raise("ValueError", <<"CSV file must include a header row.">>)
                 ELSE Bind(csv_rows(lines[1], lines, 2, <<>>), LAMBDA rows :
                          IF ~Returned(rows) THEN rows
                          ELSE IF rows.value = <<>>
                          THEN Raise("ValueError",
                                     <<"CSV file does not contain any data rows.">>)
                          ELSE rows)))

\* file_storage is [filename, mimetype, raw_bytes]; filename and mimetype are
\* strings, empty when the upload names none
load_batch_from_file(file_storage) ==
    IF is_empty_bytes(file_storage.raw_bytes)
    THEN Raise("ValueError", <<"Uploaded file is empty.">>)
    ELSE IF is_json(lower(file_storage.filename), lower(file_storage.mimetype))
    THEN decode_json(file_storage.raw_bytes)
    ELSE IF is_csv(lower(file_storage.filename), lower(file_storage.mimetype))
    THEN decode_csv(file_storage.raw_bytes)
    ELSE Raise("ValueError", <<"Unsupported file type. Upload a .json or .csv file.">>)

\* raw_engine is None ([t |-> "NoneType"]) or a string
choose_engine(raw_engine) ==
    Bind(IF raw_engine.t = "str" THEN lower(strip(raw_engine.v)) ELSE <<>>, LAMBDA engine :
        IF engine = <<>> THEN Return(ENGINE_LIGHTWEIGHT)
        ELSE IF engine \notin SUPPORTED_ENGINES
        THEN Raise("ValueError", <<"Unsupported engine", raw_engine.v>>)
        ELSE IF engine = ENGINE_JOBLIB /\ ~get_joblib_model.loaded
        THEN Raise("ValueError",
                   <<"Joblib model requested but it is not available on the server.">>)
        ELSE Return(engine))

\* whether choose_engine(raw_engine) calls get_joblib_model()
engine_loads_joblib(raw_engine) ==
    raw_engine.t = "str" /\ lower(strip(raw_engine.v)) = ENGINE_JOBLIB

\* jsonify(body), status
Response(status, body) == Return([status |-> status, body |-> body])

ErrorResponse(outcome) == Response(400, [error |-> outcome.msg])

\* the /exoplanet handler.  request is [method, engine_param, has_file,
\* file_storage, json]: engine_param is request.args.get("engine"), json is
\* request.get_json(silent=True), None when the body is no JSON.  The outcome
\* is the response returned, or the exception that leaves the handler.
\* lines 259-264 and 287-292: a prepared record to its response
single_response(prepared, engine) ==
    IF ~Returned(prepared) THEN prepared
    ELSE Bind(run_inference(prepared.value, engine), LAMBDA prediction :
             IF prediction.exc = "ValueError" THEN ErrorResponse(prediction)
             ELSE IF ~Returned(prediction) THEN prediction
             ELSE Response(200, prediction.value))

\* lines 270-273 and 280-281: a batch to its response
batch_response(payloads, engine) ==
    Bind(classify_batch(payloads, engine), LAMBDA results :
        IF ~Returned(results) THEN results
        ELSE Response(200, [results |-> results.value, engine |-> engine]))

exoplanet(request) ==
    Bind(choose_engine(request.engine_param), LAMBDA engine :
        IF engine.exc = "ValueError" THEN ErrorResponse(engine)
        ELSE IF request.method = "GET"
        THEN single_response(prepare_payload(load_sample), engine.value)
        ELSE IF request.has_file
        THEN Bind(load_batch_from_file(request.file_storage), LAMBDA batch_payloads :
                 IF batch_payloads.exc = "ValueError" THEN ErrorResponse(batch_payloads)
                 ELSE IF ~Returned(batch_payloads) THEN batch_payloads
                 ELSE Bind(batch_response(batch_payloads.value, engine.value), LAMBDA response :
                          IF response.exc = "ValueError" THEN ErrorResponse(response)
                          ELSE response))
        ELSE IF request.json.t = "NoneType"
        THEN Response(400, [error |->
                 <<"Request must include JSON data or an uploaded file.">>])
        ELSE IF request.json.t = "list"
        THEN batch_response(request.json.v, engine.value)
        ELSE IF request.json.t # "dict"
        THEN Response(400, [error |->
                 <<"JSON payload must be an object or an array of objects.">>])
        ELSE Bind(prepare_payload(request.json.v), LAMBDA prepared :
                 IF prepared.exc = "ValueError" THEN ErrorResponse(prepared)
                 ELSE single_response(prepared, engine.value)))

-----------------------------------------------------------------------------
(* Module initialisation of app.py: lines 33-45 *)

RequiredFields == <<"feature_keys", "weights", "bias", "means", "stds", "medians">>

\* the first lookup of lines 40-45 that raises KeyError, in evaluation order
import_outcome(file) ==
    IF ~file.exists
    THEN Raise("RuntimeError", <<"lightweight_model.json is missing.">>)
    ELSE LET params == file.json
             has(f) == f \in DOMAIN params
             lacks(f) == has(f) /\ \E key \in Range(params.feature_keys) :
                                       key \notin DOMAIN params[f]
         IN  IF ~has("feature_keys") THEN Raise("KeyError", <<"feature_keys">>)
             ELSE IF ~has("weights") THEN Raise("KeyError", <<"weights">>)
             ELSE IF ~has("bias") THEN Raise("KeyError", <<"bias">>)
             ELSE IF ~has("means") THEN Raise("KeyError", <<"means">>)
             ELSE IF lacks("means") THEN Raise("KeyError", <<"means", "key">>)
             ELSE IF ~has("stds") THEN Raise("KeyError", <<"stds">>)
             ELSE IF lacks("stds") THEN Raise("KeyError", <<"stds", "key">>)
             ELSE IF ~has("medians") THEN Raise("KeyError", <<"medians">>)
             ELSE IF lacks("medians") THEN Raise("KeyError", <<"medians", "key">>)
             ELSE Return(params)

\* float(MODEL_PARAMS["stds"][key]) or 1.0
std_or_one(x) == IF x = 0 THEN One ELSE x

\* the globals of lines 40-45 for a parameter object that passes import_outcome
LoadGlobals(params) ==
    /\ FEATURE_KEYS' = params.feature_keys
    /\ WEIGHTS' = params.weights
    /\ BIAS' = params.bias
    /\ MEANS' = [i \in 1..Len(params.feature_keys) |-> params.means[params.feature_keys[i]]]
    /\ STDS' = [i \in 1..Len(params.feature_keys) |->
                    std_or_one(params.stds[params.feature_keys[i]])]
    /\ MEDIANS' = [i \in 1..Len(params.feature_keys) |->
                       params.medians[params.feature_keys[i]]]

Pending == [exc |-> "pending", msg |-> <<>>, value |-> NoValue]

Idle == [fn |-> "none"]

\* import of backend/app.py: the service starts only when every line succeeds
Import ==
    /\ phase = "importing"
    /\ LET outcome == import_outcome(paramsFile)
       IN  IF Returned(outcome)
           THEN /\ phase' = "serving"
                /\ LoadGlobals(outcome.value)
                /\ ret' = Pending
           ELSE /\ phase' = "import_failed"
                /\ ret' = outcome
                /\ UNCHANGED <<FEATURE_KEYS, WEIGHTS, BIAS, MEANS, STDS, MEDIANS>>
    /\ UNCHANGED <<paramsFile, sampleFile, joblib, joblibFile, JOBLIB_MODEL, call, dataset>>

-----------------------------------------------------------------------------
(* Inputs *)

Keys == Range(TRAIN_FEATURE_KEYS)

\* an artifact as the trainer writes it
GoodParams ==
    [feature_keys |-> TRAIN_FEATURE_KEYS,
     weights |-> [i \in 1..NumKeys |-> One],
     bias |-> 0,
     means |-> [key \in Keys |-> One],
     stds |-> [key \in Keys |-> 2 * One],
     medians |-> [key \in Keys |-> One]]

\* an int beyond the largest float
HugeInt == 2 ^ (MantBits + MaxExp)

\* the values a record may hold under a key
PayloadValues ==
    {PyInt(1), PyFloat(One + One \div 2), PyStr(" 2 "), PyStr("abc"), PyStr("nan"),
     NoValue, PyBool(TRUE), PyInt(HugeInt)}

\* every record over the schema keys and one key outside the schema
Payloads ==
    UNION {[present -> PayloadValues] : present \in SUBSET (Keys \cup {"kepid"})}

ValidPayload == [key \in Keys |-> PyInt(1)]

Without(payload, key) == [k \in DOMAIN payload \ {key} |-> payload[k]]

\* records of each kind classify_batch tells apart
BatchRecords ==
    {PyInt(5),
     PyDict(ValidPayload),
     PyDict(Without(ValidPayload, TRAIN_FEATURE_KEYS[NumKeys])),
     PyDict([ValidPayload EXCEPT ![TRAIN_FEATURE_KEYS[1]] = PyStr("abc")]),
     PyDict([ValidPayload EXCEPT ![TRAIN_FEATURE_KEYS[1]] = PyInt(HugeInt)])}

Batches == UNION {[1..n -> BatchRecords] : n \in 0..MaxBatch}

EngineNames ==
    {<<>>, <<" ">>, ENGINE_LIGHTWEIGHT, ENGINE_JOBLIB,
     <<" ", "J", "o", "b", "L", "i", "b", " ">>, <<"J", "O", "B", "L", "I", "B">>,
     <<"f", "o", "o">>}

FileNames ==
    {<<>>, <<"x", ".", "c", "s", "v">>, <<"X", ".", "C", "S", "V">>,
     <<"x", ".", "j", "s", "o", "n">>, <<"x", ".", "t", "x", "t">>}

MimeTypes ==
    {<<>>, <<"t", "e", "x", "t", "/", "c", "s", "v">>,
     <<"a", "p", "p", "l", "i", "c", "a", "t", "i", "o", "n", "/", "j", "s", "o", "n">>,
     <<"t", "e", "x", "t", "/", "p", "l", "a", "i", "n">>}

\* longest CSV text, in lines after the header
MaxRows == 3

Cells(n, cell) == [i \in 1..n |-> cell]

\* the lines of a CSV text: empty, as wide as the header, shorter, longer,
\* blank or not
CsvLines ==
    {<<>>, Cells(NumKeys, "1"), Cells(NumKeys, " "), <<"1">>, <<" ">>,
     Cells(NumKeys, "") \o <<"x">>, Cells(NumKeys + 1, "1")}

CsvTexts ==
    UNION {{<<header>> \o rows : rows \in [1..n -> CsvLines]} :
               header \in {TRAIN_FEATURE_KEYS, <<>>}, n \in 0..MaxRows}

JsonDocs ==
    {PyDict(ValidPayload), PyInt(1), PyStr("x"), PyBool(TRUE), NoValue}
    \cup {PyList(items) : items \in UNION {[1..n -> {PyDict(ValidPayload), PyInt(5)}] :
                                              n \in 0..MaxBatch}}

BytesOf(kind, bom, doc, lines) == [kind |-> kind, bom |-> bom, doc |-> doc, lines |-> lines]

UploadedBytes ==
    {BytesOf("lines", bom, NoValue, <<>>) : bom \in BOOLEAN}
    \cup {BytesOf("not_utf8", FALSE, NoValue, <<>>)}
    \cup {BytesOf("json", bom, doc, <<>>) : bom \in BOOLEAN, doc \in JsonDocs}
    \cup {BytesOf("lines", bom, NoValue, lines) : bom \in BOOLEAN, lines \in CsvTexts}

\* a CSV text and a JSON text to try every file name and content type on
SampleBytes ==
    {BytesOf("lines", FALSE, NoValue, <<TRAIN_FEATURE_KEYS, Cells(NumKeys, "1")>>),
     BytesOf("json", FALSE, PyDict(ValidPayload), <<>>)}

Uploads ==
    {[filename |-> f, mimetype |-> m, raw_bytes |-> b] :
         f \in FileNames, m \in MimeTypes, b \in SampleBytes}
    \cup {[filename |-> f, mimetype |-> <<>>, raw_bytes |-> b] :
              f \in {<<"x", ".", "c", "s", "v">>, <<"x", ".", "j", "s", "o", "n">>},
              b \in UploadedBytes}

PickledModels ==
    {[loaded |-> TRUE, predict |-> 1, has_proba |-> FALSE, proba |-> <<>>],
     [loaded |-> TRUE, predict |-> 0, has_proba |-> TRUE, proba |-> <<One \div 4, 3 * (One \div 4)>>]}

JoblibFiles ==
    {[state |-> "absent", model |-> NoModel], [state |-> "corrupt", model |-> NoModel]}
    \cup {[state |-> "ok", model |-> m] : m \in PickledModels}

-----------------------------------------------------------------------------
(* Direct calls of the functions of app.py, in a process that imported the *)
(* module with GoodParams                                                  *)

Imported(params) ==
    /\ phase = "serving"
    /\ paramsFile = [exists |-> TRUE, json |-> params]
    /\ FEATURE_KEYS = params.feature_keys
    /\ WEIGHTS = params.weights
    /\ BIAS = params.bias
    /\ MEANS = [i \in 1..Len(params.feature_keys) |-> params.means[params.feature_keys[i]]]
    /\ STDS = [i \in 1..Len(params.feature_keys) |->
                   std_or_one(params.stds[params.feature_keys[i]])]
    /\ MEDIANS = [i \in 1..Len(params.feature_keys) |->
                      params.medians[params.feature_keys[i]]]

NoJoblib ==
    /\ joblib = FALSE
    /\ joblibFile = [state |-> "absent", model |-> NoModel]

AnyJoblib ==
    /\ joblib \in BOOLEAN
    /\ joblibFile \in JoblibFiles

CallInit ==
    /\ Imported(GoodParams)
    /\ sampleFile = ValidPayload
    /\ JOBLIB_MODEL = NoModel
    /\ dataset = <<>>
    /\ ret = Pending
    /\ \/ /\ call \in {[fn |-> "prepare_payload", payload |-> p] : p \in Payloads}
          /\ NoJoblib
       \/ /\ call \in {[fn |-> "classify_batch", payloads |-> b, engine |-> e] :
                          b \in Batches, e \in {ENGINE_LIGHTWEIGHT, ENGINE_JOBLIB}}
          /\ AnyJoblib
       \/ /\ call \in {[fn |-> "choose_engine", engine |-> e] :
                          e \in {PyStr(n) : n \in EngineNames} \cup {NoValue}}
          /\ AnyJoblib
       \/ /\ call \in {[fn |-> "run_inference", prepared_features |-> [key \in Keys |-> One],
                        engine |-> e] :
                          e \in {<<>>, ENGINE_LIGHTWEIGHT, ENGINE_JOBLIB, <<"f", "o", "o">>}}
          /\ AnyJoblib
       \/ /\ call \in {[fn |-> "load_batch_from_file", file_storage |-> u] : u \in Uploads}
          /\ NoJoblib

Unchanged_env ==
    UNCHANGED <<phase, paramsFile, sampleFile, joblib, joblibFile, FEATURE_KEYS, WEIGHTS,
                BIAS, MEANS, STDS, MEDIANS, call, dataset>>

CallPreparePayload ==
    /\ call.fn = "prepare_payload"
    /\ ret.exc = "pending"
    /\ ret' = prepare_payload(call.payload)
    /\ UNCHANGED JOBLIB_MODEL
    /\ Unchanged_env

CallClassifyBatch ==
    /\ call.fn = "classify_batch"
    /\ ret.exc = "pending"
    /\ ret' = classify_batch(call.payloads, call.engine)
    /\ JOBLIB_MODEL' = IF batch_loads_joblib(call.payloads, call.engine, 0)
                       THEN joblib_cache_after ELSE JOBLIB_MODEL
    /\ Unchanged_env

CallChooseEngine ==
    /\ call.fn = "choose_engine"
    /\ ret.exc = "pending"
    /\ ret' = choose_engine(call.engine)
    /\ JOBLIB_MODEL' = IF engine_loads_joblib(call.engine)
                       THEN joblib_cache_after ELSE JOBLIB_MODEL
    /\ Unchanged_env

CallRunInference ==
    /\ call.fn = "run_inference"
    /\ ret.exc = "pending"
    /\ ret' = run_inference(call.prepared_features, call.engine)
    /\ JOBLIB_MODEL' = IF call.engine = ENGINE_JOBLIB
                       THEN joblib_cache_after ELSE JOBLIB_MODEL
    /\ Unchanged_env

CallLoadBatchFromFile ==
    /\ call.fn = "load_batch_from_file"
    /\ ret.exc = "pending"
    /\ ret' = load_batch_from_file(call.file_storage)
    /\ UNCHANGED JOBLIB_MODEL
    /\ Unchanged_env

CallNext ==
    \/ CallPreparePayload
    \/ CallClassifyBatch
    \/ CallChooseEngine
    \/ CallRunInference
    \/ CallLoadBatchFromFile

CallSpec == CallInit /\ [][CallNext]_vars

-----------------------------------------------------------------------------
(* Properties of the functions of app.py, under CallSpec *)

Done(fn) == call.fn = fn /\ ret.exc # "pending"

PositionOf(seq, x) == CHOOSE i \in 1..Len(seq) : seq[i] = x

AbsentKeys(payload) == {key \in Range(FEATURE_KEYS) : key \notin DOMAIN payload}

\* C1: classify_batch returns, for every batch and engine, a list as long as
\* the batch whose item at position i carries index i; no record makes it raise.
C1_BatchNeverAborts ==
    Done("classify_batch") =>
        /\ Returned(ret)
        /\ Len(ret.value) = Len(call.payloads)
        /\ \A i \in 1..Len(ret.value) : ret.value[i].index = i - 1

\* C2: when schema keys are absent from the record, prepare_payload fails with
\* one 'Missing features' error naming exactly the absent keys, in schema
\* order, whatever the values of the keys that are present.
C2_MissingNamesEveryAbsentKey ==
    (Done("prepare_payload") /\ AbsentKeys(call.payload) # {}) =>
        /\ ret.exc = "ValueError"
        /\ Len(ret.msg) = 2
        /\ ret.msg[1] = "Missing features: "
        /\ Range(ret.msg[2]) = AbsentKeys(call.payload)
        /\ \A i, j \in 1..Len(ret.msg[2]) :
               i < j => PositionOf(FEATURE_KEYS, ret.msg[2][i])
                            < PositionOf(FEATURE_KEYS, ret.msg[2][j])

\* two keys absent while a present schema key holds a non-numeric value
C2_Witness ==
    /\ Done("prepare_payload")
    /\ Cardinality(AbsentKeys(call.payload)) = 2
    /\ \E key \in Range(FEATURE_KEYS) \cap DOMAIN call.payload :
           call.payload[key] = PyStr("abc")
    /\ Len(ret.msg) = 2
    /\ Len(ret.msg[2]) = 2

\* the engine name asks for a variant that is not available: it is neither
\* empty nor the lightweight engine, and not a loadable joblib model
Unavailable(engine) ==
    /\ engine # <<>>
    /\ engine # ENGINE_LIGHTWEIGHT
    /\ engine = ENGINE_JOBLIB => ~get_joblib_model.loaded

\* C3: an engine name whose variant is unavailable gives an error, never a
\* prediction of the lightweight engine, from choose_engine and from
\* run_inference alike.
C3_UnavailableEngineIsAnError ==
    /\ (Done("choose_engine") /\ call.engine.t = "str"
            /\ Unavailable(lower(strip(call.engine.v)))) => ret.exc = "ValueError"
    /\ (Done("run_inference") /\ Unavailable(call.engine)) => ret.exc = "ValueError"

\* C7: when prepare_payload succeeds the feature map has exactly the schema
\* keys, each a finite float equal to float() of the record's value.
C7_PreparedHasExactlySchemaKeys ==
    (Done("prepare_payload") /\ Returned(ret)) =>
        /\ DOMAIN ret.value = Range(FEATURE_KEYS)
        /\ \A key \in Range(FEATURE_KEYS) :
               /\ isfinite(ret.value[key])
               /\ py_float(call.payload[key]) = Return(ret.value[key])

\* a record with a key outside the schema and a numeric string is accepted
C7_Witness ==
    /\ Done("prepare_payload")
    /\ Returned(ret)
    /\ "kepid" \in DOMAIN call.payload
    /\ \E key \in Range(FEATURE_KEYS) : call.payload[key] = PyStr(" 2 ")

\* float() of the record's value under key fails as a conversion
FailsConversion(key) == py_float(call.payload[key]).exc \in {"ValueError", "TypeError"}

\* float() of the record's value under key is NaN or an infinity
ConvertsToNonFinite(key) ==
    /\ Returned(py_float(call.payload[key]))
    /\ ~isfinite(py_float(call.payload[key]).value)

\* C11: for a record with every schema key present and no int beyond the
\* float range, a value that fails the numeric conversion gives the 'must be numeric' error whatever the other
\* values are, and the 'must be finite' error is given only when every value
\* converts and one of the converted values is NaN or an infinity.
C11_NumericErrorWhateverTheOtherValues ==
    (Done("prepare_payload") /\ AbsentKeys(call.payload) = {}
         /\ \A key \in Range(FEATURE_KEYS) :
                py_float(call.payload[key]).exc # "OverflowError") =>
        /\ (\E key \in Range(FEATURE_KEYS) : FailsConversion(key))
               => /\ ret.exc = "ValueError"
                  /\ ret.msg = <<"All feature values must be numeric.">>
        /\ ret.msg = <<"Feature values must be finite numbers.">>
               => /\ \A key \in Range(FEATURE_KEYS) : Returned(py_float(call.payload[key]))
                  /\ \E key \in Range(FEATURE_KEYS) : ConvertsToNonFinite(key)

SameOutcome(a, b) ==
    /\ a.exc = b.exc
    /\ a.msg = b.msg
    /\ Returned(a) => a.value = b.value

UploadName == lower(call.file_storage.filename)

UploadType == lower(call.file_storage.mimetype)

UploadBytes == call.file_storage.raw_bytes

\* C4: for a non-empty upload the extension decides before the content type:
\* *.csv is decoded as CSV and *.json as JSON whatever the content type says;
\* with neither extension nor content type telling, the type is unsupported.
C4_ExtensionBeforeContentType ==
    (Done("load_batch_from_file") /\ ~is_empty_bytes(UploadBytes)) =>
        /\ endswith(UploadName, <<".", "c", "s", "v">>)
               => SameOutcome(ret, decode_csv(UploadBytes))
        /\ endswith(UploadName, <<".", "j", "s", "o", "n">>)
               => SameOutcome(ret, decode_json(UploadBytes))
        /\ (~is_json(UploadName, UploadType) /\ ~is_csv(UploadName, UploadType))
               => /\ ret.exc = "ValueError"
                  /\ ret.msg = <<"Unsupported file type. Upload a .json or .csv file.">>

\* C5: on the JSON path a top-level object decodes to the batch of that one
\* object, a top-level array to the batch of its elements in order, unfiltered,
\* and any other document is rejected.
C5_JsonObjectOrArray ==
    (Done("load_batch_from_file") /\ is_json(UploadName, UploadType)
         /\ UploadBytes.kind = "json") =>
        /\ UploadBytes.doc.t = "dict" => (Returned(ret) /\ ret.value = <<UploadBytes.doc>>)
        /\ UploadBytes.doc.t = "list" => (Returned(ret) /\ ret.value = UploadBytes.doc.v)
        /\ UploadBytes.doc.t \notin {"dict", "list"} => ret.exc = "ValueError"

\* an array of three elements, one of them no object, decodes to three records
C5_Witness ==
    /\ Done("load_batch_from_file")
    /\ is_json(UploadName, UploadType)
    /\ UploadBytes.kind = "json"
    /\ UploadBytes.doc.t = "list"
    /\ \E i \in 1..Len(UploadBytes.doc.v) : UploadBytes.doc.v[i].t # "dict"
    /\ Returned(ret)
    /\ Len(ret.value) = 3

\* the lines after the header with at least one field that is not blank
RowsWithData(lines) ==
    SelectSeq(SubSeq(lines, 2, Len(lines)),
              LAMBDA row : \E i \in 1..Len(row) : ~is_blank(row[i]))

\* C6: on the CSV path, for a text whose first line is a header, the batch is
\* the data rows with a non-blank field, in order; none left is the 'no data
\* rows' error, a text of no line the header error; every outcome is a batch
\* or a ValueError, also for rows shorter or longer than the header.
C6_CsvRowsWithDataAreKept ==
    (Done("load_batch_from_file") /\ ~is_json(UploadName, UploadType)
         /\ is_csv(UploadName, UploadType) /\ UploadBytes.kind = "lines"
         /\ ~is_empty_bytes(UploadBytes)
         /\ (UploadBytes.lines = <<>> \/ UploadBytes.lines[1] # <<>>)) =>
        LET lines == UploadBytes.lines
        IN  /\ ret.exc \in {"none", "ValueError"}
            /\ lines = <<>> => ret.msg = <<"CSV file must include a header row.">>
            /\ (lines # <<>> /\ RowsWithData(lines) = <<>>)
                   => ret.msg = <<"CSV file does not contain any data rows.">>
            /\ (lines # <<>> /\ RowsWithData(lines) # <<>>)
                   => /\ Returned(ret)
                      /\ Len(ret.value) = Len(RowsWithData(lines))
                      /\ \A i \in 1..Len(ret.value) :
                             ret.value[i] = PyDict(dict_reader_row(lines[1], RowsWithData(lines)[i]))

-----------------------------------------------------------------------------
(* The service: the module is imported, then requests are served *)

WithoutField(params, field) == [f \in DOMAIN params \ {field} |-> params[f]]

\* parameter files: none, the trainer's, and files with one defect each
ParamFiles ==
    {[exists |-> FALSE, json |-> GoodParams], [exists |-> TRUE, json |-> GoodParams]}
    \cup {[exists |-> TRUE, json |-> WithoutField(GoodParams, RequiredFields[i])] :
              i \in 1..Len(RequiredFields)}
    \cup {[exists |-> TRUE,
           json |-> [GoodParams EXCEPT ![f] = Without(GoodParams[f], TRAIN_FEATURE_KEYS[NumKeys])]] :
              f \in {"means", "stds", "medians"}}
    \cup {[exists |-> TRUE, json |-> [GoodParams EXCEPT !.weights = [i \in 1..n |-> One]]] :
              n \in {NumKeys - 1, NumKeys + 1}}
    \cup {[exists |-> TRUE,
           json |-> [GoodParams EXCEPT !.stds[TRAIN_FEATURE_KEYS[1]] = 0]]}

\* test_data.json: complete (with a key outside the schema), lacking a schema
\* key, holding null under a schema key
SampleFiles ==
    {ValidPayload @@ ("kepid" :> PyInt(1)),
     Without(ValidPayload, TRAIN_FEATURE_KEYS[NumKeys]),
     [ValidPayload EXCEPT ![TRAIN_FEATURE_KEYS[1]] = NoValue]}

NoUpload == [filename |-> <<>>, mimetype |-> <<>>, raw_bytes |-> BytesOf("lines", FALSE, NoValue, <<>>)]

RequestOf(method, engine_param, has_file, file_storage, json) ==
    [fn |-> "exoplanet", method |-> method, engine_param |-> engine_param,
     has_file |-> has_file, file_storage |-> file_storage, json |-> json]

EngineParams ==
    {NoValue, PyStr(ENGINE_JOBLIB), PyStr(<<" ", "J", "o", "b", "L", "i", "b", " ">>),
     PyStr(<<"f", "o", "o">>)}

\* request bodies: no JSON, a number, single records of each kind, arrays
JsonBodies ==
    {NoValue, PyInt(5), PyDict([ValidPayload EXCEPT ![TRAIN_FEATURE_KEYS[1]] = PyStr("nan")])}
    \cup (BatchRecords \ {PyInt(5)})
    \cup {PyList(b) : b \in Batches}

\* uploads: both sample texts under every name and type, and CSV and JSON
\* texts of one data line or one document
RequestUploads ==
    {u \in Uploads : u.filename # <<>> /\ (u.raw_bytes \in SampleBytes \/
                                           Len(u.raw_bytes.lines) <= 2)}

Requests ==
    {RequestOf("GET", e, FALSE, NoUpload, NoValue) : e \in EngineParams}
    \cup {RequestOf("POST", e, FALSE, NoUpload, j) : e \in EngineParams, j \in JsonBodies}
    \cup {RequestOf("POST", e, TRUE, u, NoValue) : e \in EngineParams, u \in RequestUploads}

Init ==
    /\ phase = "importing"
    /\ paramsFile \in ParamFiles
    /\ sampleFile \in SampleFiles
    /\ \/ NoJoblib
       \/ joblib = TRUE /\ joblibFile \in JoblibFiles
    /\ FEATURE_KEYS = <<>>
    /\ WEIGHTS = <<>>
    /\ BIAS = 0
    /\ MEANS = <<>>
    /\ STDS = <<>>
    /\ MEDIANS = <<>>
    /\ JOBLIB_MODEL = NoModel
    /\ call = Idle
    /\ ret = Pending
    /\ dataset = <<>>

\* one request to /exoplanet, handled to its response
Exoplanet ==
    /\ phase = "serving"
    /\ call = Idle
    /\ \E request \in Requests :
           /\ call' = request
           /\ ret' = exoplanet(request)
           /\ JOBLIB_MODEL' = IF engine_loads_joblib(request.engine_param)
                              THEN joblib_cache_after ELSE JOBLIB_MODEL
    /\ UNCHANGED <<phase, paramsFile, sampleFile, joblib, joblibFile, FEATURE_KEYS, WEIGHTS,
                   BIAS, MEANS, STDS, MEDIANS, dataset>>

\* the response is sent and the worker takes the next request
Respond ==
    /\ phase = "serving"
    /\ call # Idle
    /\ call' = Idle
    /\ ret' = Pending
    /\ UNCHANGED <<phase, paramsFile, sampleFile, joblib, joblibFile, FEATURE_KEYS, WEIGHTS,
                   BIAS, MEANS, STDS, MEDIANS, JOBLIB_MODEL, dataset>>

Next ==
    \/ Import
    \/ Exoplanet
    \/ Respond

Spec == Init /\ [][Next]_vars

-----------------------------------------------------------------------------
(* Properties of the service, under Spec *)

\* the parameter file is structurally valid: it exists, has every required
\* field, an entry per schema key in means, stds and medians, and as many
\* weights as feature keys
ValidArtifact ==
    /\ paramsFile.exists
    /\ \A i \in 1..Len(RequiredFields) : RequiredFields[i] \in DOMAIN paramsFile.json
    /\ \A f \in {"means", "stds", "medians"} :
           Range(paramsFile.json.feature_keys) \subseteq DOMAIN paramsFile.json[f]
    /\ Len(paramsFile.json.weights) = Len(paramsFile.json.feature_keys)

Handled == phase = "serving" /\ call.fn = "exoplanet"

\* the record of a single-record request, and whether the request has one
IsSingleRecord ==
    call.method = "GET" \/ (~call.has_file /\ call.json.t = "dict")

SingleRecord == IF call.method = "GET" THEN load_sample ELSE call.json.v

\* the records of a POST of an array or of a file
PostedBatch ==
    IF call.has_file THEN load_batch_from_file(call.file_storage)
    ELSE IF call.json.t = "list" THEN Return(call.json.v)
    ELSE Raise("ValueError", <<>>)

IsValidationFailure(record) ==
    record.t = "dict" /\ prepare_payload(record.v).exc = "ValueError"

\* C8: a request of one record whose validation fails (a schema key is
\* missing, a value is not numeric or not finite) is answered with status 400
\* and an {error} body when it is the GET of the sample or the POST of one
\* JSON object, and is answered by a response, never by an exception leaving
\* the handler, when the record comes alone in an array or in a file.
C8_ValidationFailureIsCallerFault ==
    (Handled /\ ValidArtifact) =>
        /\ (IsSingleRecord /\ IsValidationFailure(PyDict(SingleRecord)))
               => /\ Returned(ret)
                  /\ ret.value.status = 400
                  /\ DOMAIN ret.value.body = {"error"}
        /\ (call.method = "POST" /\ ~IsSingleRecord /\ Returned(PostedBatch)
               /\ Len(PostedBatch.value) = 1 /\ IsValidationFailure(PostedBatch.value[1]))
               => Returned(ret)

\* C10: with a parameter file that is missing or structurally invalid the
\* import fails and the service never serves; every request is handled with
\* medians, means, stds and weights of one length.
C10_InvalidArtifactNeverServes ==
    /\ phase = "serving" => ValidArtifact
    /\ Handled => /\ Len(MEDIANS) = Len(MEANS)
                  /\ Len(MEANS) = Len(STDS)
                  /\ Len(STDS) = Len(WEIGHTS)

-----------------------------------------------------------------------------
(* The trainer, api/train_lightweight_model.py.  A row of the catalogue is   *)
(* [koi_disposition, cells]: the label cell and one cell per schema key, a   *)
(* string, or None where the line is too short or the column is absent.      *)

UpperChar(c) ==
    CASE c = "c" -> "C" [] c = "o" -> "O" [] c = "n" -> "N" [] c = "f" -> "F"
      [] c = "i" -> "I" [] c = "r" -> "R" [] c = "m" -> "M" [] c = "e" -> "E"
      [] c = "d" -> "D"
      [] OTHER -> c

\* str.upper()
upper(s) == [i \in 1..Len(s) |-> UpperChar(s[i])]

CONFIRMED == <<"C", "O", "N", "F", "I", "R", "M", "E", "D">>

FALSE_POSITIVE == <<"F", "A", "L", "S", "E", " ", "P", "O", "S", "I", "T", "I", "V", "E">>

\* row.get("koi_disposition", "").strip().upper(), of a row whose label cell
\* is a string
disposition_of(row) == upper(strip(row.koi_disposition.v))

\* the rows the loop of lines 76-98 does not skip
is_recognized(row) == disposition_of(row) \in {CONFIRMED, FALSE_POSITIVE}

\* 1.0 if disposition == "CONFIRMED" else 0.0
label_of(row) == IF disposition_of(row) = CONFIRMED THEN One ELSE 0

\* value.strip() == "" or value.strip().lower() == "nan", of the cells the
\* model uses
is_missing_text(s) == s \in {"", " ", "nan", "NaN", " NaN "}

\* lines 86-96: the entry of sample for one cell, None or a float
sample_entry(value) ==
    IF value.t = "NoneType" \/ is_missing_text(value.v) THEN NoValue
    ELSE Bind(float_of_str(value.v), LAMBDA numeric :
             IF numeric.exc = "ValueError" THEN NoValue ELSE PyFloat(numeric.value))

\* feature_samples after the loop of lines 76-98
parsed_samples(rows) ==
    Bind(SelectSeq(rows, is_recognized), LAMBDA kept :
        [r \in 1..Len(kept) |->
            [index \in 1..Len(TRAIN_FEATURE_KEYS) |-> sample_entry(kept[r].cells[index])]])

\* labels after the loop of lines 76-98
parsed_labels(rows) ==
    Bind(SelectSeq(rows, is_recognized), LAMBDA kept :
        [r \in 1..Len(kept) |-> label_of(kept[r])])

IsNumeric(entry) == entry.t = "float"

\* raw_values[FEATURE_KEYS[index]]
raw_values(feature_samples, index) ==
    Bind(SelectSeq([r \in 1..Len(feature_samples) |-> feature_samples[r][index]], IsNumeric),
         LAMBDA numeric : [j \in 1..Len(numeric) |-> numeric[j].v])

RECURSIVE sorted_from(_, _, _)
\* sorted(values): insertion of values[i..] into the sorted sequence acc
sorted_from(values, i, acc) ==
    IF i > Len(values) THEN acc
    ELSE Bind(Cardinality({j \in 1..Len(acc) : acc[j] <= values[i]}), LAMBDA before :
             sorted_from(values, i + 1,
                         SubSeq(acc, 1, before) \o <<values[i]>>
                             \o SubSeq(acc, before + 1, Len(acc))))

sorted(values) == sorted_from(values, 1, <<>>)

_median(values) ==
    IF values = <<>> THEN 0
    ELSE Bind(sorted(values), LAMBDA sorted_values :
             Bind(Len(sorted_values) \div 2, LAMBDA mid :
                 IF Len(sorted_values) % 2 = 0
                 THEN FDiv(FAdd(sorted_values[mid], sorted_values[mid + 1]), 2 * One)
                 ELSE sorted_values[mid + 1]))

\* lines 100-102
medians_of(feature_samples) ==
    [index \in 1..Len(TRAIN_FEATURE_KEYS) |-> _median(raw_values(feature_samples, index))]

\* lines 107-109: the samples with every None replaced by the median
imputed_samples(feature_samples, medians) ==
    [r \in 1..Len(feature_samples) |->
        [index \in 1..Len(TRAIN_FEATURE_KEYS) |->
            IF feature_samples[r][index].t = "NoneType" THEN medians[index]
            ELSE feature_samples[r][index].v]]

RECURSIVE sum_from(_, _, _, _)
\* means[key] += value over the samples, in order
sum_from(samples, index, r, total) ==
    IF r > Len(samples) THEN total
    ELSE sum_from(samples, index, r + 1, FAdd(total, samples[r][index]))

\* lines 105-113, for count > 0
means_of(samples) ==
    [index \in 1..Len(TRAIN_FEATURE_KEYS) |->
        FDiv(sum_from(samples, index, 1, 0), Len(samples) * One)]

RECURSIVE squares_from(_, _, _, _, _)
\* stds[key] += diff * diff over the samples, in order
squares_from(samples, index, mean, r, total) ==
    IF r > Len(samples) THEN total
    ELSE Bind(FSub(samples[r][index], mean), LAMBDA diff :
             squares_from(samples, index, mean, r + 1, FAdd(total, FMul(diff, diff))))

Max(a, b) == IF a >= b THEN a ELSE b

\* math.sqrt(value / max(count - 1, 1)) if value else 1.0
std_of(value, count) ==
    IF value # 0 THEN FSqrt(FDiv(value, Max(count - 1, 1) * One)) ELSE One

\* lines 115-124
stds_of(samples, means) ==
    [index \in 1..Len(TRAIN_FEATURE_KEYS) |->
        std_of(squares_from(samples, index, means[index], 1, 0), Len(samples))]

\* lines 127-129, for stds without a zero
standardised(samples, means, stds) ==
    [r \in 1..Len(samples) |->
        [index \in 1..Len(TRAIN_FEATURE_KEYS) |->
            FDiv(FSub(samples[r][index], means[index]), stds[index])]]

\* lines 69-129 of _parse_dataset: the training matrix, the label vector and
\* the statistics, or the exception that ends the script
_parse_dataset(rows) ==
    IF \E r \in 1..Len(rows) : rows[r].koi_disposition.t = "NoneType"
    THEN Raise("AttributeError", <<"'NoneType' object has no attribute 'strip'">>)
    ELSE Bind(parsed_samples(rows), LAMBDA feature_samples :
         Bind(medians_of(feature_samples), LAMBDA medians :
         Bind(imputed_samples(feature_samples, medians), LAMBDA samples :
             IF Len(samples) = 0 THEN Raise("ZeroDivisionError", <<"float division by zero">>)
             ELSE Bind(means_of(samples), LAMBDA means :
                  Bind(stds_of(samples, means), LAMBDA stds :
                      IF \E index \in 1..Len(stds) : stds[index] = 0
                      THEN Raise("ZeroDivisionError", <<"float division by zero">>)
                      ELSE Return([feature_samples |-> standardised(samples, means, stds),
                                   labels |-> parsed_labels(rows),
                                   medians |-> medians,
                                   means |-> means,
                                   stds |-> stds]))))))

\* lines 133-141: the artifact written for the parsed data and the result of
\* _train_logistic_regression
artifact(parsed, weights, bias) ==
    [feature_keys |-> TRAIN_FEATURE_KEYS,
     medians |-> [key \in Keys |-> parsed.medians[PositionOf(TRAIN_FEATURE_KEYS, key)]],
     means |-> [key \in Keys |-> parsed.means[PositionOf(TRAIN_FEATURE_KEYS, key)]],
     stds |-> [key \in Keys |-> parsed.stds[PositionOf(TRAIN_FEATURE_KEYS, key)]],
     weights |-> weights,
     bias |-> bias]

\* the label cells: the two dispositions, a third one, a variant in case and
\* spacing, and the cell of a line too short to have one
LabelCells ==
    {PyStr(CONFIRMED), PyStr(FALSE_POSITIVE),
     PyStr(<<"C", "A", "N", "D", "I", "D", "A", "T", "E">>),
     PyStr(<<" ", "c", "o", "n", "f", "i", "r", "m", "e", "d">>)}

\* the feature cells: numbers, an empty cell, a NaN, a word, a missing cell
FeatureCells ==
    {PyStr("1"), PyStr("1.5"), PyStr("inf"), PyStr(""), PyStr(" NaN "), PyStr("abc"), NoValue}

\* rows: every feature cell under the first key; the other columns are all
\* filled or all empty
DatasetRows ==
    {[koi_disposition |-> label,
      cells |-> [index \in 1..NumKeys |-> IF index = 1 THEN first ELSE rest]] :
        label \in LabelCells, first \in FeatureCells, rest \in {PyStr("1"), PyStr("")}}
    \cup {[koi_disposition |-> NoValue, cells |-> [index \in 1..NumKeys |-> NoValue]]}

Datasets == UNION {[1..n -> DatasetRows] : n \in 0..MaxRows}

\* the weight and the bias _train_logistic_regression may return are floats
\* the model does not compute: one weight per schema key
TrainedValues == {0, One}

TrainInit ==
    /\ phase = "training"
    /\ dataset \in Datasets
    /\ paramsFile = [exists |-> FALSE, json |-> GoodParams]
    /\ sampleFile = ValidPayload
    /\ NoJoblib
    /\ FEATURE_KEYS = <<>>
    /\ WEIGHTS = <<>>
    /\ BIAS = 0
    /\ MEANS = <<>>
    /\ STDS = <<>>
    /\ MEDIANS = <<>>
    /\ JOBLIB_MODEL = NoModel
    /\ call = Idle
    /\ ret = Pending

\* one run of the script: _parse_dataset() to the written artifact, which is
\* then put in place as the lightweight_model.json the service imports
ParseDataset ==
    /\ phase = "training"
    /\ call' = [fn |-> "_parse_dataset"]
    /\ ret' = _parse_dataset(dataset)
    /\ IF Returned(ret')
       THEN /\ phase' = "importing"
            /\ \E w \in TrainedValues :
                   paramsFile' = [exists |-> TRUE,
                                  json |-> artifact(ret'.value,
                                                    [index \in 1..Len(TRAIN_FEATURE_KEYS) |-> w],
                                                    w)]
       ELSE /\ phase' = "train_failed"
            /\ UNCHANGED paramsFile
    /\ UNCHANGED <<sampleFile, joblib, joblibFile, FEATURE_KEYS, WEIGHTS, BIAS, MEANS, STDS,
                   MEDIANS, JOBLIB_MODEL, dataset>>

TrainNext ==
    \/ ParseDataset
    \/ Import

TrainSpec == TrainInit /\ [][TrainNext]_vars

-----------------------------------------------------------------------------
(* Properties of the trainer, under TrainSpec *)

ArtifactWritten == call.fn = "_parse_dataset" /\ phase \in {"importing", "serving"}

\* the imputed values of the recognized rows
Imputed ==
    imputed_samples(parsed_samples(dataset), medians_of(parsed_samples(dataset)))

\* the imputed values under the index-th key are one finite number
IdenticalValues(index) ==
    \A r \in 1..Len(Imputed) :
        isfinite(Imputed[r][index]) /\ Imputed[r][index] = Imputed[1][index]

\* C9: every std of a written artifact is non-zero, the std of a feature whose
\* imputed values are one finite number in every recognized row is exactly
\* 1.0, and every entry of the STDS the service loads from it is non-zero.
C9_StdIsNonZeroAndOneForIdenticalValues ==
    /\ ArtifactWritten =>
           \A index \in 1..NumKeys :
               /\ paramsFile.json.stds[TRAIN_FEATURE_KEYS[index]] # 0
               /\ IdenticalValues(index) =>
                      paramsFile.json.stds[TRAIN_FEATURE_KEYS[index]] = One
    /\ (ArtifactWritten /\ phase = "serving") => \A index \in 1..Len(STDS) : STDS[index] # 0

\* the label cell of the row is exactly one of the two dispositions
HasExactLabel(row) ==
    row.koi_disposition.t = "str" /\ row.koi_disposition.v \in {CONFIRMED, FALSE_POSITIVE}

\* the rows of the catalogue with an exact label, in order
ExactRows == SelectSeq(dataset, HasExactLabel)

Parsed == call.fn = "_parse_dataset" /\ phase = "importing" /\ Returned(ret)

\* C12: the rows whose label is not exactly CONFIRMED or FALSE POSITIVE add
\* no row and no label and contribute to no median, mean or std: the result
\* is that of the rows with an exact label alone, one row and one label (1.0
\* for CONFIRMED, 0.0 for FALSE POSITIVE) for each of them.
C12_OnlyExactLabelsAreUsed ==
    Parsed =>
        /\ Len(ret.value.feature_samples) = Len(ExactRows)
        /\ Len(ret.value.labels) = Len(ExactRows)
        /\ \A r \in 1..Len(ExactRows) :
               ret.value.labels[r]
                   = IF ExactRows[r].koi_disposition.v = CONFIRMED THEN One ELSE 0
        /\ SameOutcome(ret, _parse_dataset(ExactRows))

=============================================================================
